---------------------------- MODULE Spec2Model ----------------------------
(***************************************************************************)
(* MRV-P Navigator (src/app.py): the feature / prediction / scoring        *)
(* functions and the session state (run history, audit log) that the four  *)
(* buttons of the page change.                                             *)
(*                                                                         *)
(* Numbers.  A Python float is an IEEE-754 binary64 value: a NaN, or       *)
(*     (-1)^s * m * 2^e      (record "real", m of exactly 53 bits, or 0)   *)
(* Every product, quotient and sum is the exact result rounded to the      *)
(* nearest double, ties to even, as the hardware does it; the mantissas    *)
(* are held as sequences of 14-bit limbs.  The values of the program stay  *)
(* far inside the normal range, so infinities and subnormals are left out, *)
(* and so is the sign of zero, which no comparison of the program sees.    *)
(* A NaN remembers whether it is the object np.nan itself or another float *)
(* object, since Python's "in" tests identity before equality.             *)
(***************************************************************************)
EXTENDS Integers, Sequences, FiniteSets

VARIABLES runs,        \* st.session_state.runs
          audit_log,   \* st.session_state.audit_log
          last_click,  \* the button handled by the latest script run, with the rows it was given
          call         \* one evaluation of the pipeline: its arguments, position, results

vars == <<runs, audit_log, last_click, call>>

-----------------------------------------------------------------------------
(* Natural numbers of any size: little-endian sequences of limbs below      *)
(* LimbBase, without a leading zero limb; <<>> is zero                      *)

LimbBits == 14

LimbBase == 16384

\* Pow2[k + 1] = 2^k for k in 0..LimbBits
Pow2 == <<1, 2, 4, 8, 16, 32, 64, 128, 256, 512, 1024, 2048, 4096, 8192, 16384>>

RECURSIVE BTrim(_)
BTrim(a) ==
    IF a = <<>> THEN a
    ELSE IF a[Len(a)] = 0 THEN BTrim(SubSeq(a, 1, Len(a) - 1))
    ELSE a

RECURSIVE BOfInt(_)
BOfInt(n) == IF n = 0 THEN <<>> ELSE <<n % LimbBase>> \o BOfInt(n \div LimbBase)

RECURSIVE BAddC(_, _, _)
BAddC(a, b, c) ==
    IF a = <<>> /\ b = <<>> THEN (IF c = 0 THEN <<>> ELSE <<c>>)
    ELSE LET s == (IF a = <<>> THEN 0 ELSE a[1]) + (IF b = <<>> THEN 0 ELSE b[1]) + c
         IN  <<s % LimbBase>> \o BAddC(IF a = <<>> THEN a ELSE Tail(a),
                                       IF b = <<>> THEN b ELSE Tail(b),
                                       s \div LimbBase)

BAdd(a, b) == BAddC(a, b, 0)

RECURSIVE BSubC(_, _, _)
BSubC(a, b, c) ==
    IF a = <<>> THEN <<>>
    ELSE LET s == a[1] - (IF b = <<>> THEN 0 ELSE b[1]) - c
         IN  <<s % LimbBase>> \o BSubC(Tail(a), IF b = <<>> THEN b ELSE Tail(b),
                                       IF s < 0 THEN 1 ELSE 0)

\* a - b, for a >= b
BSub(a, b) == BTrim(BSubC(a, b, 0))

RECURSIVE BCmpAt(_, _, _)
BCmpAt(a, b, i) ==
    IF i = 0 THEN 0
    ELSE IF a[i] # b[i] THEN (IF a[i] < b[i] THEN -1 ELSE 1)
    ELSE BCmpAt(a, b, i - 1)

\* -1, 0, 1 as a < b, a = b, a > b
BCmp(a, b) ==
    IF Len(a) # Len(b) THEN (IF Len(a) < Len(b) THEN -1 ELSE 1)
    ELSE BCmpAt(a, b, Len(a))

RECURSIVE BMulSmallC(_, _, _)
BMulSmallC(a, k, c) ==
    IF a = <<>> THEN (IF c = 0 THEN <<>> ELSE <<c>>)
    ELSE LET s == a[1] * k + c
         IN  <<s % LimbBase>> \o BMulSmallC(Tail(a), k, s \div LimbBase)

\* a * k, for 0 <= k <= LimbBase
BMulSmall(a, k) == IF k = 0 THEN <<>> ELSE BMulSmallC(a, k, 0)

RECURSIVE BMul(_, _)
BMul(a, b) ==
    IF a = <<>> \/ b = <<>> THEN <<>>
    ELSE LET r == BMul(a, Tail(b))
         IN  BAdd(BMulSmall(a, b[1]), IF r = <<>> THEN r ELSE <<0>> \o r)

RECURSIVE Zeros(_)
Zeros(n) == IF n = 0 THEN <<>> ELSE <<0>> \o Zeros(n - 1)

\* a * 2^k
BShl(a, k) ==
    IF a = <<>> THEN a
    ELSE Zeros(k \div LimbBits) \o BMulSmall(a, Pow2[(k % LimbBits) + 1])

RECURSIVE BShrBits(_, _)
BShrBits(a, r) ==
    IF a = <<>> THEN <<>>
    ELSE <<(a[1] \div Pow2[r + 1])
           + (IF Len(a) > 1 THEN (a[2] % Pow2[r + 1]) * Pow2[LimbBits - r + 1] ELSE 0)>>
         \o BShrBits(Tail(a), r)

\* a \div 2^k
BShr(a, k) ==
    IF k \div LimbBits >= Len(a) THEN <<>>
    ELSE BTrim(BShrBits(SubSeq(a, (k \div LimbBits) + 1, Len(a)), k % LimbBits))

RECURSIVE IntBits(_)
IntBits(n) == IF n = 0 THEN 0 ELSE 1 + IntBits(n \div 2)

\* the number of bits of a
BitLen(a) == IF a = <<>> THEN 0 ELSE LimbBits * (Len(a) - 1) + IntBits(a[Len(a)])

BOdd(a) == a # <<>> /\ a[1] % 2 = 1

\* the digit q and the remainder of cur by d, from an estimate q that is not
\* below the digit
RECURSIVE FixDigit(_, _, _)
FixDigit(cur, d, q) ==
    IF BCmp(BMulSmall(d, q), cur) > 0 THEN FixDigit(cur, d, q - 1)
    ELSE <<q, BSub(cur, BMulSmall(d, q))>>

\* the estimate of a digit from the two leading limbs of cur and the leading
\* limb of d, at most LimbBase - 1
EstDigit(top2, dtop) ==
    IF top2 \div dtop < LimbBase THEN top2 \div dtop ELSE LimbBase - 1

\* <<digit, remainder>> of cur by d, where cur < d * LimbBase and the top limb
\* of d is at least LimbBase / 2, so that the estimate is at most 2 above the
\* digit
DivCur(cur, d, n) ==
    IF BCmp(cur, d) < 0 THEN <<0, cur>>
    ELSE FixDigit(cur, d, EstDigit((IF Len(cur) > n THEN cur[n + 1] ELSE 0) * LimbBase + cur[n],
                                   d[n]))

\* one limb of a long division: r < d on entry; <<digit, remainder>> of
\* (r * LimbBase + limb) by d
DivLimb(r, d, limb) ==
    DivCur(IF r = <<>> /\ limb = 0 THEN <<>> ELSE <<limb>> \o r, d, Len(d))

\* long division of a by d, from the most significant limb of a down:
\* <<quotient, remainder>>
RECURSIVE BDivModAt(_, _, _, _, _)
RECURSIVE BDivModStep(_, _, _, _, _)
BDivModAt(a, d, i, q, r) ==
    IF i = 0 THEN <<BTrim(q), r>>
    ELSE BDivModStep(a, d, i, q, DivLimb(r, d, a[i]))

BDivModStep(a, d, i, q, step) == BDivModAt(a, d, i - 1, <<step[1]>> \o q, step[2])

BDivMod(a, d) == BDivModAt(a, d, Len(a), <<>>, <<>>)

-----------------------------------------------------------------------------
(* IEEE-754 binary64 values (the floats of Python): a NaN, or the real      *)
(* (-1)^s * m * 2^e with m of exactly MantBits bits, or m = <<>> for zero   *)

MantBits == 53

\* a mantissa times 2^GuardBits fills four limbs
GuardBits == 3

NaN == [t |-> "nan", obj |-> "float"]

NpNan == [t |-> "nan", obj |-> "np.nan"]

IsNaN(v) == v.t = "nan"

Zero == [t |-> "real", s |-> 0, m |-> <<>>, e |-> 0]

IsZero(v) == v.t = "real" /\ v.m = <<>>

Pack(s, m, e) == [t |-> "real", s |-> s, m |-> m, e |-> e]

\* q of MantBits bits, or 2^MantBits after a carry out of the rounding
Renorm(s, q, e) ==
    IF BitLen(q) > MantBits THEN Pack(s, BShr(q, 1), e + 1) ELSE Pack(s, q, e)

\* c compares the dropped bits with one half: above, or at one half with a
\* sticky bit or an odd q, the mantissa goes up
RoundUp(s, q, e, c, sticky) ==
    Renorm(s, IF c > 0 \/ (c = 0 /\ (sticky \/ BOdd(q))) THEN BAdd(q, <<1>>) ELSE q, e)

\* q holds the leading MantBits bits of M, which has k bits more
RoundDrop(s, M, e, sticky, k, q) ==
    RoundUp(s, q, e + k, BCmp(BSub(M, BShl(q, k)), BShl(<<1>>, k - 1)), sticky)

RoundLen(s, M, e, sticky, n) ==
    IF n = 0 THEN Zero
    ELSE IF n <= MantBits THEN Pack(s, BShl(M, MantBits - n), e - (MantBits - n))
    ELSE RoundDrop(s, M, e, sticky, n - MantBits, BShr(M, n - MantBits))

\* the double nearest to (-1)^s * (M + f) * 2^e, ties to even, where
\* 0 <= f < 1 and sticky tells whether f > 0
Round(s, M, e, sticky) == RoundLen(s, M, e, sticky, BitLen(M))

Abs(i) == IF i < 0 THEN -i ELSE i

\* float(i) for an integer i
R(i) == Round(IF i < 0 THEN 1 ELSE 0, BOfInt(Abs(i)), 0, FALSE)

Neg(v) == IF IsNaN(v) THEN NaN ELSE IF IsZero(v) THEN v ELSE [v EXCEPT !.s = 1 - v.s]

\* |a| < |b| for two reals other than zero
LtMag(a, b) == a.e < b.e \/ (a.e = b.e /\ BCmp(a.m, b.m) < 0)

\* Python's a < b : False as soon as one side is a NaN
Lt(a, b) ==
    IF IsNaN(a) \/ IsNaN(b) THEN FALSE
    ELSE IF IsZero(a) THEN ~IsZero(b) /\ b.s = 0
    ELSE IF IsZero(b) THEN a.s = 1
    ELSE IF a.s # b.s THEN a.s = 1
    ELSE IF a.s = 0 THEN LtMag(a, b)
    ELSE LtMag(b, a)

Gt(a, b) == Lt(b, a)

\* Python's a == b on floats: neither is a NaN and neither is below the other
PyEq(a, b) == ~IsNaN(a) /\ ~IsNaN(b) /\ ~Lt(a, b) /\ ~Lt(b, a)

Le(a, b) == Lt(a, b) \/ PyEq(a, b)

Ge(a, b) == Le(b, a)

\* a * b
Mul(a, b) ==
    IF IsNaN(a) \/ IsNaN(b) THEN NaN
    ELSE IF IsZero(a) \/ IsZero(b) THEN Zero
    ELSE Round((a.s + b.s) % 2, BMul(a.m, b.m), a.e + b.e, FALSE)

RoundQuotient(s, e, qr) == Round(s, qr[1], e, qr[2] # <<>>)

\* a / b, b # 0
Div(a, b) ==
    IF IsNaN(a) \/ IsNaN(b) THEN NaN
    ELSE IF IsZero(a) THEN Zero
    ELSE RoundQuotient((a.s + b.s) % 2, a.e - b.e - 4 * LimbBits,
                       BDivMod(BShl(a.m, GuardBits + 4 * LimbBits), BShl(b.m, GuardBits)))

\* the sum of the magnitudes A and B of signs sa and sb, in units of 2^e
AddAligned(sa, A, sb, B, e) ==
    Round(IF BCmp(A, B) >= 0 THEN sa ELSE sb,
          IF sa = sb THEN BAdd(A, B)
          ELSE IF BCmp(A, B) >= 0 THEN BSub(A, B) ELSE BSub(B, A),
          e, FALSE)

\* both mantissas in units of 2^e, e the lower exponent of the two
AddAt(a, b, e) == AddAligned(a.s, BShl(a.m, a.e - e), b.s, BShl(b.m, b.e - e), e)

\* a + b
Add(a, b) ==
    IF IsNaN(a) \/ IsNaN(b) THEN NaN
    ELSE IF IsZero(a) THEN b
    ELSE IF IsZero(b) THEN a
    ELSE AddAt(a, b, IF a.e < b.e THEN a.e ELSE b.e)

Sub(a, b) == Add(a, Neg(b))

\* the doubles of the decimal literals n/100, worked out once
Hundredths == [n \in -5..110 |-> Div(R(n), R(100))]

\* the double of the decimal literal n/100
Dec(n) == Hundredths[n]

\* Python's max(a, b): b replaces a only when b > a
PyMax(a, b) == IF Gt(b, a) THEN b ELSE a

\* np.clip(v, lo, hi) = minimum(maximum(v, lo), hi); a NaN stays a NaN
Clip(v, lo, hi) ==
    IF IsNaN(v) THEN NaN
    ELSE IF Lt(v, lo) THEN lo
    ELSE IF Gt(v, hi) THEN hi
    ELSE v

-----------------------------------------------------------------------------
(* The pure functions of the engine *)

\* the floor 1e-9 of the denominators and of the weight sum
Eps == Div(R(1), R(1000000000))

\* a cell holding text that float() cannot parse
Text == [t |-> "str"]

\* marks a key the mapping does not hold
Absent == [t |-> "absent"]

ValueError == [exc |-> "ValueError"]

Raised(v) == "exc" \in DOMAIN v

\* v in (0, 0.0, None): equality with zero
InZeroNone(v) == PyEq(v, Zero)

\* safe_div(a, b, default)
safe_div(a, b, default) == IF ~InZeroNone(b) THEN Div(a, b) ELSE default

\* float(row.get(key, 0))
FloatGet(row, key) ==
    IF key \notin DOMAIN row THEN Zero
    ELSE IF row[key] = Text THEN ValueError
    ELSE row[key]

required == <<"horas_corte", "energia_kwh", "num_viagens", "area_m2", "peso_estimado_t">>

\* the mapping compute_features returns
FeatureSet(horas, energia, viagens, area, peso, aco_por_hora) ==
    [horas_corte     |-> horas,
     energia_kwh     |-> energia,
     num_viagens     |-> viagens,
     area_m2         |-> area,
     peso_estimado_t |-> peso,
     aco_por_hora    |-> aco_por_hora,
     aco_por_kwh     |-> safe_div(peso, PyMax(energia, Eps), Zero),
     aco_por_viagem  |-> safe_div(peso, PyMax(viagens, Eps), Zero),
     aco_por_m2      |-> safe_div(peso, PyMax(area, Eps), Zero),
     OEI             |-> safe_div(aco_por_hora, PyMax(energia, Eps), Zero)]

\* compute_features once its five float() calls are made: the first that
\* raises ends the call
FeaturesFrom(horas, energia, viagens, area, peso) ==
    IF \E v \in {horas, energia, viagens, area, peso} : Raised(v)
      THEN ValueError
    ELSE FeatureSet(horas, energia, viagens, area, peso,
                    safe_div(peso, PyMax(horas, Eps), Zero))

compute_features(row) ==
    FeaturesFrom(FloatGet(row, "horas_corte"), FloatGet(row, "energia_kwh"),
                 FloatGet(row, "num_viagens"), FloatGet(row, "area_m2"),
                 FloatGet(row, "peso_estimado_t"))

\* PredictBand with the two ends of the band exchanged
PredictBand_Swapped(pred) ==
    [pred |-> pred, p05 |-> Mul(pred, Dec(110)), p95 |-> Mul(pred, Dec(90))]

\* p05 = pred * 0.90, p95 = pred * 1.10, and the triple returned
PredictBand(pred) ==
    [pred |-> pred, p05 |-> Mul(pred, Dec(90)), p95 |-> Mul(pred, Dec(110))]

\* base = peso * 0.95; adj = 1.0 + np.clip(oei * 10_000, -0.05, 0.05);
\* pred = base * adj
predict_steel_t(features) ==
    PredictBand(Mul(Mul(features.peso_estimado_t, Dec(95)),
                    Add(Dec(100), Clip(Mul(features.OEI, R(10000)), Dec(-5), Dec(5)))))

\* v in (0, 0.0, None, np.nan): identity with the object np.nan, or equality
InZeroNoneNan(v) == v = NpNan \/ InZeroNone(v)

\* Status with strict comparisons at the two thresholds
Status_Strict(score) ==
    IF Gt(score, Dec(80)) THEN "CONFORME"
    ELSE IF Gt(score, Dec(60)) THEN "ATENCAO"
    ELSE "NAO CONFORME"

\* the status of a score ("ATENCAO", "NAO CONFORME": the labels without their accents)
Status(score) ==
    IF Ge(score, Dec(80)) THEN "CONFORME"
    ELSE IF Ge(score, Dec(60)) THEN "ATENCAO"
    ELSE "NAO CONFORME"

\* completude = filled / len(required)
Completude(features) ==
    Div(R(Cardinality({i \in DOMAIN required : ~InZeroNoneNan(features[required[i]])})),
        R(Len(required)))

\* if horas_corte <= 0 or energia_kwh <= 0: cons -= 0.3
PenaltyHoursEnergy(features, cons) ==
    IF Le(features.horas_corte, Zero) \/ Le(features.energia_kwh, Zero)
      THEN Sub(cons, Dec(30)) ELSE cons

\* if peso_estimado_t <= 0: cons -= 0.4
PenaltyWeight(features, cons) ==
    IF Le(features.peso_estimado_t, Zero) THEN Sub(cons, Dec(40)) ELSE cons

\* if aco_por_hora > 200: cons -= 0.2
PenaltyRate(features, cons) ==
    IF Gt(features.aco_por_hora, R(200)) THEN Sub(cons, Dec(20)) ELSE cons

\* cons = 1.0, the three penalties in turn, then np.clip(cons, 0.0, 1.0)
Consistencia(features) ==
    Clip(PenaltyRate(features,
                     PenaltyWeight(features, PenaltyHoursEnergy(features, Dec(100)))),
         Zero, Dec(100))

\* the mapping mrv_score returns
ScoreResult(completude, consistencia, evidencia, score) ==
    [completude   |-> completude,
     consistencia |-> consistencia,
     evidencia    |-> evidencia,
     score        |-> score,
     status       |-> Status(score)]

\* score = w_comp * completude + w_cons * consistencia + w_evid * evidencia
WeightedScore(w_comp, w_cons, w_evid, completude, consistencia, evidencia) ==
    ScoreResult(completude, consistencia, evidencia,
                Add(Add(Mul(w_comp, completude), Mul(w_cons, consistencia)),
                    Mul(w_evid, evidencia)))

mrv_score(features, w_comp, w_cons, w_evid, evidence_level) ==
    WeightedScore(w_comp, w_cons, w_evid, Completude(features), Consistencia(features),
                  Clip(evidence_level, Zero, Dec(100)))

\* mrv_score(feats) with the defaults of its signature
mrv_score_default(features) ==
    mrv_score(features, Dec(40), Dec(30), Dec(30), Dec(80))

\* The sliders: 0.0 to 1.0 in steps of 0.05; position i stands for the double
\* of the decimal i * 0.05.  The positions the model draws (0, 1, 4, 16, 20)
\* are ones where the product i * 0.05 in doubles gives that same double.
SliderMax == 20

SliderValue(i) == Dec(5 * i)

\* w_comp/s, w_cons/s, w_evid/s
DivideBySum(w_comp, w_cons, w_evid, s) ==
    <<Div(w_comp, s), Div(w_cons, s), Div(w_evid, s)>>

\* s = max(w_comp + w_cons + w_evid, 1e-9), then the three quotients
FlooredSum(w_comp, w_cons, w_evid) ==
    DivideBySum(w_comp, w_cons, w_evid, PyMax(Add(Add(w_comp, w_cons), w_evid), Eps))

\* the weights of the manual form, divided by their floored sum
NormalizeWeights(w) ==
    FlooredSum(SliderValue(w[1]), SliderValue(w[2]), SliderValue(w[3]))

\* mrv_score with the weights nw
ScoreWith(features, nw, evidence_level) ==
    mrv_score(features, nw[1], nw[2], nw[3], evidence_level)

\* mrv_score as the manual form calls it
mrv_score_manual(features, w, e) ==
    ScoreWith(features, NormalizeWeights(w), SliderValue(e))

\* {**f, **g}: the keys of g win
Merge(f, g) ==
    [k \in DOMAIN f \cup DOMAIN g |-> IF k \in DOMAIN g THEN g[k] ELSE f[k]]

\* out = {**row, **feats, "aco_previsto_t": ..., **{f"mrv_{k}": v ...}}
RunRecord(row, feats, p, mrv) ==
    Merge(Merge(row, feats),
          [aco_previsto_t   |-> p.pred,
           p05_t            |-> p.p05,
           p95_t            |-> p.p95,
           mrv_completude   |-> mrv.completude,
           mrv_consistencia |-> mrv.consistencia,
           mrv_evidencia    |-> mrv.evidencia,
           mrv_score        |-> mrv.score,
           mrv_status       |-> mrv.status])

\* the "Rodar MRV-P" handler after feats = compute_features(row)
ManualOutFrom(inp, feats) ==
    IF Raised(feats) THEN feats
    ELSE RunRecord(inp.row, feats, predict_steel_t(feats),
                   mrv_score_manual(feats, inp.w, inp.e))

\* the body of the "Rodar MRV-P" handler up to the record it saves
ManualOut(inp) == ManualOutFrom(inp, compute_features(inp.row))

\* the batch loop after feats = compute_features(r.to_dict())
BatchOutFrom(row, feats) ==
    IF Raised(feats) THEN feats
    ELSE RunRecord(row, feats, predict_steel_t(feats), mrv_score_default(feats))

\* the body of the batch loop for one row of the uploaded frame
BatchOut(row) == BatchOutFrom(row, compute_features(row))

-----------------------------------------------------------------------------
(* Inputs *)

\* a mapping with the two text fields and the cells that are present
MkRow(obra_id, data, h, e, v, a, p) ==
    LET full == [horas_corte |-> h, energia_kwh |-> e, num_viagens |-> v,
                 area_m2 |-> a, peso_estimado_t |-> p]
        ids  == [obra_id |-> obra_id, data |-> data]
    IN  Merge(ids, [k \in {k \in DOMAIN full : full[k] # Absent} |-> full[k]])

\* rows of the manual form: number_input(min_value=0.0)
ManualRows ==
    {MkRow("P2-ICTSI", "2025-12-26", R(h), R(e), R(v), R(a), R(p)) :
        h \in {0, 1, 120}, e \in {0, 4500}, v \in {0, 15},
        a \in {0, 1800}, p \in {0, 1, 900}}

\* slider positions of the weights and of the evidence level: 0.0, 0.05, 0.2,
\* 0.8, 1.0
WeightPositions == {0, 1, 4, SliderMax}

EvidencePositions == {0, 16, SliderMax}

ManualInputs ==
    [row : ManualRows,
     w : WeightPositions \X WeightPositions \X WeightPositions,
     e : EvidencePositions]

\* rows of an uploaded CSV: a cell is a number, empty (NaN), text, or its column is missing
CsvRows ==
    {MkRow("P2-ICTSI", "2025-12-26", h, e, v, a, p) :
        h \in {Absent, NaN, NpNan, Text, R(-1), Zero, R(120)},
        e \in {NaN, Zero, R(4500)},
        v \in {Absent, NpNan, R(15)},
        a \in {NaN, Zero, R(1800)},
        p \in {NaN, Text, R(-1), Zero, R(900)}}

-----------------------------------------------------------------------------
(* One evaluation of the pipeline, function by function *)

NoValue == [t |-> "none"]

Idle == [pc |-> "idle"]

\* form: the weights and the evidence level of the manual form (slider positions)
StartCall(mode, row, form) ==
    [pc |-> "start", mode |-> mode, row |-> row, form |-> form,
     feats |-> NoValue, pred |-> NoValue, mrv |-> NoValue]

ManualCalls == {StartCall("Manual", i.row, [w |-> i.w, e |-> i.e]) : i \in ManualInputs}

CsvCalls == {StartCall("Upload CSV", r, NoValue) : r \in CsvRows}

InitCalc ==
    /\ runs = <<>>
    /\ audit_log = <<>>
    /\ last_click = NoValue
    /\ call \in ManualCalls \cup CsvCalls

\* the calls of the manual form alone: every cell is a number >= 0
InitManual ==
    /\ runs = <<>>
    /\ audit_log = <<>>
    /\ last_click = NoValue
    /\ call \in ManualCalls

CallComputeFeatures ==
    /\ call.pc = "start"
    /\ LET feats == compute_features(call.row)
       IN  call' = [call EXCEPT !.feats = feats,
                                !.pc = IF Raised(feats) THEN "raised" ELSE "features"]
    /\ UNCHANGED <<runs, audit_log, last_click>>

CallPredictSteel ==
    /\ call.pc = "features"
    /\ call' = [call EXCEPT !.pred = predict_steel_t(call.feats), !.pc = "predicted"]
    /\ UNCHANGED <<runs, audit_log, last_click>>

CallMrvScore ==
    /\ call.pc = "predicted"
    /\ call' = [call EXCEPT
                  !.mrv = IF call.mode = "Manual"
                            THEN mrv_score_manual(call.feats, call.form.w, call.form.e)
                            ELSE mrv_score_default(call.feats),
                  !.pc = "scored"]
    /\ UNCHANGED <<runs, audit_log, last_click>>

NextCalc == CallComputeFeatures \/ CallPredictSteel \/ CallMrvScore

SpecCalc == InitCalc /\ [][NextCalc]_vars

SpecManual == InitManual /\ [][NextCalc]_vars

-----------------------------------------------------------------------------
(* The session: the run history, the audit log and the four buttons *)

MaxRuns == 3

MaxLog == 3

MaxBatch == 2

\* log_event(event, details); the wall-clock "ts" of the entry is left out
log_event(log, event, details) ==
    Append(log, [event |-> event, details |-> details])

\* what the manual form holds when "Rodar MRV-P" is pressed
SessionManualInputs ==
    {[row |-> MkRow("P2-ICTSI", "2025-12-26", R(120), R(4500), R(15), R(1800), R(900)),
      w |-> <<8, 6, 6>>, e |-> 16],
     [row |-> MkRow("P2-ICTSI", "2025-12-26", Zero, Zero, Zero, Zero, Zero),
      w |-> <<0, 0, 0>>, e |-> 0]}

\* rows an uploaded file may hold
SessionCsvRows ==
    {MkRow("P2-ICTSI", "2025-12-26", R(120), R(4500), R(15), R(1800), R(900)),
     MkRow("P2-ICTSI", "2025-12-27", NaN, R(4500), R(15), R(1800), R(900)),
     MkRow("P2-ICTSI", "2025-12-28", R(120), R(4500), R(15), R(1800), Text)}

\* df = pd.read_csv(up): the rows of the file, in order
DataFrames == UNION {[1..n -> SessionCsvRows] : n \in 0..MaxBatch}

\* the records the batch loop appends: those of the rows before the first one
\* on which compute_features raises
RECURSIVE BatchAppended(_, _)
RECURSIVE BatchAppendedFrom(_, _, _)
BatchAppended(df, i) ==
    IF i > Len(df) THEN <<>> ELSE BatchAppendedFrom(df, i, BatchOut(df[i]))

\* out: what the loop body makes of row i
BatchAppendedFrom(df, i, out) ==
    IF Raised(out) THEN <<>> ELSE <<out>> \o BatchAppended(df, i + 1)

\* the loop was left by an exception: a row of df has no record in appended
BatchRaises(df, appended) == Len(appended) < Len(df)

Init ==
    /\ runs = <<>>
    /\ audit_log = <<>>
    /\ last_click = NoValue
    /\ call = Idle

\* the handler once out is computed: runs.append(out), log_event(...)
SingleRunSave(inp, out) ==
    /\ runs' = IF Raised(out) THEN runs ELSE Append(runs, out)
    /\ audit_log' = IF Raised(out) THEN audit_log
                    ELSE log_event(audit_log, "single_run",
                                   [obra_id |-> inp.row.obra_id, data |-> inp.row.data])
    /\ last_click' = [button |-> "single_run", df |-> <<inp.row>>]
    /\ UNCHANGED call

\* st.button("Rodar MRV-P")
SingleRun ==
    \E inp \in SessionManualInputs :
        /\ Len(runs) < MaxRuns
        /\ Len(audit_log) < MaxLog
        /\ SingleRunSave(inp, ManualOut(inp))

\* the handler, appended being the records its loop appends before it ends
BatchProcessSave(df, appended) ==
    /\ runs' = runs \o appended
    /\ audit_log' = IF BatchRaises(df, appended) THEN audit_log
                    ELSE log_event(audit_log, "batch_processed", [rows |-> Len(df)])
    /\ last_click' = [button |-> "batch_processed", df |-> df]
    /\ UNCHANGED call

\* st.button("Processar todas as linhas")
BatchProcess ==
    \E df \in DataFrames :
        /\ Len(runs) + Len(df) <= MaxRuns
        /\ Len(audit_log) < MaxLog
        /\ BatchProcessSave(df, BatchAppended(df, 1))

\* st.button("Limpar log (somente sessão)")
ClearAudit ==
    /\ audit_log' = log_event(<<>>, "audit_cleared", NoValue)
    /\ last_click' = [button |-> "audit_cleared", df |-> <<>>]
    /\ UNCHANGED <<runs, call>>

\* st.button("Resetar execuções (somente sessão)"), shown only while runs exist
ResetRuns ==
    /\ runs # <<>>
    /\ Len(audit_log) < MaxLog
    /\ runs' = <<>>
    /\ audit_log' = log_event(audit_log, "runs_cleared", NoValue)
    /\ last_click' = [button |-> "runs_cleared", df |-> <<>>]
    /\ UNCHANGED call

Next == SingleRun \/ BatchProcess \/ ClearAudit \/ ResetRuns

Spec == Init /\ [][Next]_vars

-----------------------------------------------------------------------------
(* Properties of the pure functions, under SpecCalc *)

MaxScale == 5

Scored == call.pc = "scored"

Predicted == call.pc \in {"predicted", "scored"}

HasFeatures == call.pc \in {"features", "predicted", "scored"}

\* C1: the score of every scored call, on the manual path (weights divided by
\* their sum) and on the batch path (default weights), lies in [0.0, 1.0].
C1_ScoreBounds ==
    Scored => Le(Zero, call.mrv.score) /\ Le(call.mrv.score, R(1))

NonNegative(v) == Ge(v, Zero)

C2_Precondition ==
    /\ NonNegative(call.feats.peso_estimado_t)
    /\ NonNegative(call.feats.horas_corte)
    /\ NonNegative(call.feats.energia_kwh)
    /\ NonNegative(call.feats.num_viagens)
    /\ NonNegative(call.feats.area_m2)

\* C2: for a record with non-negative weight and denominators, the prediction
\* satisfies p05 <= pred <= p95, with p05 = 0.90 * pred and p95 = 1.10 * pred.
C2_IntervalOrdering ==
    (Predicted /\ C2_Precondition) =>
        /\ Le(call.pred.p05, call.pred.pred)
        /\ Le(call.pred.pred, call.pred.p95)
        /\ call.pred.p05 = Mul(Dec(90), call.pred.pred)
        /\ call.pred.p95 = Mul(Dec(110), call.pred.pred)

\* a prediction from a positive weight whose adjustment is not clamped: the
\* band is strict on both sides
C2_Witness ==
    /\ Predicted
    /\ C2_Precondition
    /\ Lt(Zero, call.feats.OEI)
    /\ Lt(Mul(call.feats.OEI, R(10000)), Dec(5))
    /\ Lt(call.pred.p05, call.pred.pred)
    /\ Lt(call.pred.pred, call.pred.p95)

\* C3: the status is CONFORME exactly when score >= 0.80, ATENCAO exactly when
\* 0.60 <= score < 0.80, NAO CONFORME exactly when score < 0.60.
C3_StatusThresholds ==
    Scored =>
        LET sc == call.mrv.score
            st == call.mrv.status
        IN  /\ st \in {"CONFORME", "ATENCAO", "NAO CONFORME"}
            /\ (st = "CONFORME") <=> Ge(sc, Dec(80))
            /\ (st = "ATENCAO") <=> (Ge(sc, Dec(60)) /\ Lt(sc, Dec(80)))
            /\ (st = "NAO CONFORME") <=> Lt(sc, Dec(60))

\* a call whose score is exactly 0.80
C3_Witness ==
    /\ Scored
    /\ call.mrv.score = Dec(80)
    /\ call.mrv.status = "CONFORME"

\* a call whose score is exactly 0.60
C3_WitnessLower ==
    /\ Scored
    /\ call.mrv.score = Dec(60)
    /\ call.mrv.status = "ATENCAO"

\* a cell that holds a number other than zero
NonZeroNumber(row, key) ==
    /\ key \in DOMAIN row
    /\ row[key] # Text
    /\ ~IsNaN(row[key])
    /\ row[key] # Zero

\* a field that is absent, empty (NaN) or zero
ZeroOrMissing(row, key) ==
    \/ key \notin DOMAIN row
    \/ (row[key] # Text /\ (IsNaN(row[key]) \/ row[key] = Zero))

\* C4: completeness is the number of the five required fields that are
\* non-zero and non-missing (absent key, or empty/NaN cell), divided by 5.
C4_Completeness ==
    Scored =>
        call.mrv.completude =
            Div(R(Cardinality({i \in DOMAIN required :
                                  NonZeroNumber(call.row, required[i])})),
                R(5))

\* C5: compute_features never raises and returns the five fields as numbers,
\* a missing or non-numeric field being 0.0.
C5_Total ==
    call.pc # "start" =>
        /\ call.pc # "raised"
        /\ \A i \in DOMAIN required :
              LET key == required[i]
              IN  /\ ~IsNaN(call.feats[key])
                  /\ ~NonZeroNumber(call.row, key) => call.feats[key] = Zero

\* the ratios of compute_features, each with its denominator field
Ratios ==
    {<<"aco_por_hora", "horas_corte">>, <<"aco_por_kwh", "energia_kwh">>,
     <<"aco_por_viagem", "num_viagens">>, <<"aco_por_m2", "area_m2">>,
     <<"OEI", "energia_kwh">>}

\* C6: a ratio whose denominator field is zero or missing is exactly 0.0,
\* whatever the weight, and no ratio is a NaN.
C6_ZeroDenominatorRatio ==
    HasFeatures =>
        \A rd \in Ratios :
            /\ ~IsNaN(call.feats[rd[1]])
            /\ ZeroOrMissing(call.row, rd[2]) => call.feats[rd[1]] = Zero

\* C7: multiplying the three weights of the manual form by the same k (as far
\* as the sliders go) leaves the score and the status unchanged.
C7_ScaleInvariance ==
    (Scored /\ call.mode = "Manual") =>
        \A k \in 1..MaxScale :
            (\A i \in 1..3 : k * call.form.w[i] <= SliderMax) =>
                LET scaled == mrv_score_manual(call.feats,
                                               [i \in 1..3 |-> k * call.form.w[i]],
                                               call.form.e)
                IN  /\ scaled.score = call.mrv.score
                    /\ scaled.status = call.mrv.status

\* v lies between a and b, whichever of the two is the lower
Between(v, a, b) == (Le(a, v) /\ Le(v, b)) \/ (Le(b, v) /\ Le(v, a))

\* pred is the base times a factor of [0.95, 1.05]
Within5Percent(pred, base) ==
    Between(pred, Mul(base, Dec(95)), Mul(base, Dec(105)))

\* C8: the point estimate differs from the base 0.95 * peso_estimado_t by at
\* most 5% of that base: it lies between 0.95 * base and 1.05 * base.
C8_AdjustmentBound ==
    Predicted =>
        Within5Percent(call.pred.pred, Mul(call.feats.peso_estimado_t, Dec(95)))

\* C8, numbers only: the same bound for the feature sets that hold no NaN
C8_AdjustmentBound_Numeric ==
    (Predicted /\ \A k \in DOMAIN call.feats : ~IsNaN(call.feats[k])) =>
        Within5Percent(call.pred.pred, Mul(call.feats.peso_estimado_t, Dec(95)))

-----------------------------------------------------------------------------
(* Properties of the session, under Spec *)

LastEvent(log) == log[Len(log)].event

AppendsOne(log, log2, kind) ==
    /\ Len(log2) = Len(log) + 1
    /\ SubSeq(log2, 1, Len(log)) = log
    /\ LastEvent(log2) = kind

\* C9: every action appends exactly one audit event of its kind, in order; an
\* action that changed the run history has its event in the log; right after
\* a clear-audit action the log is exactly the audit_cleared event.
C9_EveryActionAudited ==
    [][LET kind == last_click'.button
       IN  /\ kind = "audit_cleared" =>
                 (Len(audit_log') = 1 /\ LastEvent(audit_log') = kind)
           /\ kind # "audit_cleared" => AppendsOne(audit_log, audit_log', kind)
           /\ runs' # runs => AppendsOne(audit_log, audit_log', kind)]_vars

\* C10: a single run appends one record, a batch of N rows appends N records
\* in row order, the records already held stay in place, and only the reset
\* removes records, all of them.
C10_AppendOnly ==
    [][LET kind == last_click'.button
           df   == last_click'.df
           old  == Len(runs)
       IN  /\ kind \in {"single_run", "batch_processed"} =>
                 /\ Len(runs') = old + Len(df)
                 /\ SubSeq(runs', 1, old) = runs
                 /\ \A i \in 1..Len(df) : runs'[old + i].data = df[i].data
           /\ kind = "audit_cleared" => runs' = runs
           /\ kind = "runs_cleared" => runs' = <<>>
           /\ Len(runs') < Len(runs) => kind = "runs_cleared"]_vars

\* C10, without the count: whatever a step does, the records held before it
\* stay in place unless the step is the reset, which empties the history
C10_PrefixKept ==
    [][\/ (Len(runs') >= Len(runs) /\ SubSeq(runs', 1, Len(runs)) = runs)
       \/ (last_click'.button = "runs_cleared" /\ runs' = <<>>)]_vars

=============================================================================
